---- MODULE Spec2Model ----
(***************************************************************************)
(* ClipKeep clipboard manager: capture and persistence pipeline.           *)
(* The model follows src/clipkeep_V2.251208.py (the later build); the      *)
(* clipboard classifier of the earlier build src/ClipKeep.py is modelled   *)
(* next to it.                                                             *)
(***************************************************************************)
EXTENDS Integers, Sequences, FiniteSets, Bags, TLC

(***************************************************************************)
(* Bounds of the model.                                                    *)
(***************************************************************************)
\* things the user and other applications do in one run: copies, selections,
\* clicks, edits, deletions, clearing, accepted settings dialogs
MaxSteps == 5
\* largest history limit the settings may hold in the model
MaxLimit == 2
\* rows of the tables trim_to_limit is applied to on its own
MaxRows == 3
\* largest timestamp of those rows
MaxTime == 2
\* notifications of other applications' copies that may be undelivered at one time
MaxNotifications == 1
\* runnables the thread pool may hold at one time
MaxTasks == 1
\* worker signals that may be queued for the UI thread at one time
MaxEvents == 2
\* images of the resize check are up to MaxSide pixels wide and high
MaxSide == 6
\* pixel budgets of the resize check are up to MaxArea
MaxArea == 9

(***************************************************************************)
(* Program constants.                                                      *)
(***************************************************************************)
MAX_IMAGE_AREA_PIXELS == 4194304
THUMBNAIL_SIZE == 64
SAVE_DEBOUNCE_MS == 700
HTML_MIN_LENGTH == 20
JPEG_QUALITY == 90

(***************************************************************************)
(* Text: a Python str is a sequence of one-character strings.              *)
(***************************************************************************)
Whitespace == {" ", "\n"}

RECURSIVE LStrip(_)
LStrip(s) == IF s # <<>> /\ Head(s) \in Whitespace THEN LStrip(Tail(s)) ELSE s

RECURSIVE RStrip(_)
RStrip(s) ==
    IF s # <<>> /\ s[Len(s)] \in Whitespace THEN RStrip(SubSeq(s, 1, Len(s) - 1)) ELSE s

\* str.strip()
Strip(s) == RStrip(LStrip(s))

\* "\n".join(parts)
RECURSIVE Join(_)
Join(parts) ==
    IF parts = <<>> THEN <<>>
    ELSE IF Len(parts) = 1 THEN parts[1]
    ELSE parts[1] \o <<"\n">> \o Join(Tail(parts))

\* SQL NULL in a text column / None
NullText == <<"NULL">>

(***************************************************************************)
(* Images and byte strings.                                                *)
(***************************************************************************)
\* a QImage: pixel content (its origin and the lossy steps applied to it),
\* dimensions, alpha channel
NullImage == [pixels |-> <<>>, w |-> 0, h |-> 0, alpha |-> FALSE]

\* QImage.isNull()
IsNull(img) == img.w = 0 \/ img.h = 0

\* NULL blob / no bytes
NullBytes == [codec |-> "null", chars |-> <<>>, pixels |-> <<>>, w |-> 0, h |-> 0,
              alpha |-> FALSE, quality |-> 0]

\* str.encode()
Utf8(s) == [codec |-> "utf-8", chars |-> s, pixels |-> <<>>, w |-> 0, h |-> 0,
            alpha |-> FALSE, quality |-> 0]

\* what a failed QImage.save leaves in the buffer
EmptyBytes == [NullBytes EXCEPT !.codec = "empty"]

\* QImage.save(buffer, fmt, quality): PNG keeps the pixels and the alpha
\* channel, JPEG drops alpha and is lossy; a null image is not written
SaveImage(img, fmt, quality) ==
    IF IsNull(img) THEN EmptyBytes ELSE
    [codec |-> fmt, chars |-> <<>>,
     pixels |-> IF fmt = "JPEG" THEN Append(img.pixels, "jpeg") ELSE img.pixels,
     w |-> img.w, h |-> img.h,
     alpha |-> (fmt = "PNG" /\ img.alpha),
     quality |-> quality]

\* QImage.loadFromData(blob)
LoadFromData(bytes) ==
    IF bytes.codec \in {"PNG", "JPEG"}
    THEN [pixels |-> bytes.pixels, w |-> bytes.w, h |-> bytes.h, alpha |-> bytes.alpha]
    ELSE NullImage

\* hashlib.md5(bytes).hexdigest(), taken to be collision free
MD5(bytes) == [digest |-> bytes]

\* the empty string ""
EmptyHash == [digest |-> NullBytes]

\* NULL in the content_hash column
NullHash == [digest |-> [NullBytes EXCEPT !.codec = "NULL"]]

\* QSize.scaled(tw, th, KeepAspectRatio)
QSizeScaled(w, h, tw, th) ==
    LET rw == (th * w) \div h
    IN  IF rw <= tw THEN <<rw, th>> ELSE <<tw, (tw * h) \div w>>

Max(a, b) == IF a >= b THEN a ELSE b

\* QImage.scaled(tw, th, KeepAspectRatio, SmoothTransformation): a null image
\* or an empty target size gives a null image; the new size is at least 1 x 1
Scaled(img, tw, th) ==
    IF IsNull(img) \/ tw <= 0 \/ th <= 0 THEN NullImage
    ELSE LET sz == QSizeScaled(img.w, img.h, tw, th)
             nw == Max(sz[1], 1)
             nh == Max(sz[2], 1)
         IN  IF nw = img.w /\ nh = img.h THEN img
             ELSE [pixels |-> Append(img.pixels, "smooth"), w |-> nw, h |-> nh,
                   alpha |-> img.alpha]

RECURSIVE GCD(_, _)
GCD(a, b) == IF b = 0 THEN a ELSE GCD(b, a % b)

\* largest k in lo..hi with k*k*d <= n  (lo satisfies it)
RECURSIVE RootSearch(_, _, _, _)
RootSearch(lo, hi, n, d) ==
    IF lo >= hi THEN lo
    ELSE LET mid == (lo + hi + 1) \div 2
         IN  IF mid * mid * d <= n THEN RootSearch(mid, hi, n, d)
             ELSE RootSearch(lo, mid - 1, n, d)

\* variant: the product is rounded up
ScaledSideRoundsUp(side, other, max_area) ==
    LET g == GCD(side, other)
        k == RootSearch(0, side, (side \div g) * max_area, other \div g)
    IN  IF k * k * (other \div g) = (side \div g) * max_area THEN k ELSE k + 1

\* int(side * (max_area / (w*h)) ** 0.5) with w*h > max_area, in exact
\* arithmetic; side is w or h, other the remaining dimension:
\* floor(sqrt(side * max_area / other))
ScaledSide(side, other, max_area) ==
    LET g == GCD(side, other)
    IN  RootSearch(0, side, (side \div g) * max_area, other \div g)

RECURSIVE PowerOfTwo(_)
PowerOfTwo(n) == n = 1 \/ (n % 2 = 0 /\ PowerOfTwo(n \div 2))

\* the same expression as the interpreter evaluates it, in double precision:
\* the quotient, its square root and the product are each rounded. When
\* side * scale_factor is an integer k and scale_factor = k / side is no
\* binary fraction, the product may come out just below k and int() gives
\* k - 1 (2302 x 2302 under 4194304 gives 2047, 3000 x 3000 gives 2048);
\* otherwise the rounding error does not reach the next integer and int()
\* gives the exact floor
ScaledSides(side, other, max_area) ==
    LET g == GCD(side, other)
        k == ScaledSide(side, other, max_area)
    IN  IF /\ k > 0
           /\ k * k * (other \div g) = (side \div g) * max_area
           /\ ~PowerOfTwo(side \div GCD(k, side))
        THEN {k - 1, k}
        ELSE {k}

(***************************************************************************)
(* The records table (ClipboardDatabase) as pure operations on a set of    *)
(* rows.                                                                   *)
(***************************************************************************)
TextRow(id, ts, text, fmt, hash) ==
    [id |-> id, type |-> "text", content |-> text, content_blob |-> NullBytes,
     timestamp |-> ts, thumbnail |-> NullBytes, format |-> fmt,
     width |-> 0, height |-> 0, content_hash |-> hash]

ImageRow(id, ts, data, thumb, fmt, w, h, hash) ==
    [id |-> id, type |-> "image", content |-> NullText, content_blob |-> data,
     timestamp |-> ts, thumbnail |-> thumb, format |-> fmt,
     width |-> w, height |-> h, content_hash |-> hash]

\* ClipboardDatabase.add_text_record
DbAddTextRecord(rows, id, ts, text, fmt) ==
    rows \cup {TextRow(id, ts, text, fmt, MD5(Utf8(text)))}

\* variant: the lookup fails and reports no duplicate
NeverDuplicate(rows, hash) == FALSE

\* ClipboardDatabase.check_duplicate_hash (a NULL content_hash equals nothing)
CheckDuplicateHash(rows, hash) ==
    \E r \in rows : r.content_hash # NullHash /\ r.content_hash = hash

\* variant: an update of an absent id inserts a row for it
UpdateCreatesRow(rows, id, text) ==
    IF \E r \in rows : r.id = id
    THEN {IF r.id = id THEN [r EXCEPT !.content = text] ELSE r : r \in rows}
    ELSE rows \cup {TextRow(id, 0, text, "plain", MD5(Utf8(text)))}

\* variant: the update also stores the hash of the new text
UpdateRehashes(rows, id, text) ==
    {IF r.id = id THEN [r EXCEPT !.content = text, !.content_hash = MD5(Utf8(text))]
     ELSE r : r \in rows}

\* ClipboardDatabase.update_text_content
UpdateTextContent(rows, id, text) ==
    {IF r.id = id THEN [r EXCEPT !.content = text] ELSE r : r \in rows}

\* ClipboardDatabase.delete_record
DeleteRecord(rows, id) == {r \in rows : r.id # id}

\* ClipboardDatabase.clear_all
ClearAll(rows) == {}

\* ClipboardDatabase.get_count
GetCount(rows) == Cardinality(rows)

Min(a, b) == IF a <= b THEN a ELSE b

\* SELECT id FROM records ORDER BY timestamp DESC LIMIT n: the row sets the
\* query may return (SQL leaves the order of equal timestamps open; a negative
\* LIMIT is no limit)
TopByTimestamp(rows, n) ==
    IF n < 0 THEN {rows}
    ELSE {K \in SUBSET rows :
            /\ Cardinality(K) = Min(n, Cardinality(rows))
            /\ \A k \in K : \A d \in rows \ K : k.timestamp >= d.timestamp}

\* variant: the subquery orders by id instead of timestamp
TrimByRowid(rows, n) ==
    IF n < 0 THEN {rows}
    ELSE {K \in SUBSET rows :
            /\ Cardinality(K) = Min(n, Cardinality(rows))
            /\ \A k \in K : \A d \in rows \ K : k.id >= d.id}

\* variant: the DELETE takes the n oldest rows (IN ... ORDER BY timestamp ASC)
TrimDropsOldest(rows, n) ==
    IF n < 0 THEN {{}}
    ELSE {rows \ D : D \in {X \in SUBSET rows :
            /\ Cardinality(X) = Min(n, Cardinality(rows))
            /\ \A d \in X : \A k \in rows \ X : d.timestamp <= k.timestamp}}

\* ClipboardDatabase.trim_to_limit: the tables the DELETE may leave
TrimToLimit(rows, n) == TopByTimestamp(rows, n)

\* the orders in which ORDER BY timestamp DESC may list a set of rows
RECURSIVE OrderedByTimestamp(_)
OrderedByTimestamp(rows) ==
    IF rows = {} THEN {<<>>}
    ELSE UNION {{<<r>> \o rest : rest \in OrderedByTimestamp(rows \ {r})} :
                r \in {x \in rows : \A y \in rows : x.timestamp >= y.timestamp}}

\* ClipboardRecord built from a row by DBWorker
NoRecord == [id |-> 0, type |-> "none", content |-> NullText, image |-> NullImage,
             timestamp |-> 0, thumbnail |-> NullBytes, format |-> "none",
             content_hash |-> EmptyHash]

\* DBWorker load_all: summaries carry the text, never the image bytes
Summary(r) ==
    [id |-> r.id, type |-> r.type,
     content |-> IF r.type = "text" THEN r.content ELSE NullText,
     image |-> NullImage, timestamp |-> r.timestamp, thumbnail |-> r.thumbnail,
     format |-> r.format,
     content_hash |-> IF r.content_hash = NullHash THEN EmptyHash ELSE r.content_hash]

\* DBWorker get_detail: the full record, the image decoded from the blob
Detail(r) ==
    [id |-> r.id, type |-> r.type,
     content |-> IF r.type = "text" THEN r.content ELSE NullText,
     image |-> IF r.type = "text" THEN NullImage ELSE LoadFromData(r.content_blob),
     timestamp |-> r.timestamp, thumbnail |-> r.thumbnail,
     format |-> r.format,
     content_hash |-> IF r.content_hash = NullHash THEN EmptyHash ELSE r.content_hash]

\* SELECT ... ORDER BY timestamp DESC LIMIT limit, as summaries
LoadAll(rows, limit) ==
    {[i \in 1..Len(s) |-> Summary(s[i])] :
        s \in UNION {OrderedByTimestamp(K) : K \in TopByTimestamp(rows, limit)}}

\* SELECT ... WHERE id = ?
GetDetail(rows, id) ==
    IF \E r \in rows : r.id = id
    THEN Detail(CHOOSE r \in rows : r.id = id)
    ELSE NoRecord

(***************************************************************************)
(* Clipboard snapshots (QMimeData) and the contents the model offers.      *)
(***************************************************************************)
NoSnapshot ==
    [hasImage |-> FALSE, image |-> NullImage, urls |-> <<>>,
     hasHtml |-> FALSE, html |-> <<>>, hasText |-> FALSE, text |-> <<>>]

TextA == <<" ", "a">>
TextB == <<"b">>
PathF == <<"/", "f">>
HtmlLong == <<"<", "p", ">", "r", "i", "c", "h", " ", "t", "e", "x", "t", " ", "b", "o",
              "d", "y", "<", "/", "p", ">">>
HtmlShort == <<"<", "b", "r", ">">>

ImgOpaque == [pixels |-> <<"photo">>, w |-> 100, h |-> 50, alpha |-> FALSE]
ImgAlpha == [pixels |-> <<"icon">>, w |-> 32, h |-> 32, alpha |-> TRUE]
ImgBig == [pixels |-> <<"scan">>, w |-> 3000, h |-> 3000, alpha |-> TRUE]
ImgSquare == [pixels |-> <<"shot">>, w |-> 2302, h |-> 2302, alpha |-> FALSE]

LocalUrl(path) == [local |-> TRUE, path |-> path]
RemoteUrl(path) == [local |-> FALSE, path |-> path]

SnapText(t) == [NoSnapshot EXCEPT !.hasText = TRUE, !.text = t]
SnapImage(img, t) == [SnapText(t) EXCEPT !.hasImage = TRUE, !.image = img]
SnapUrls(us, t) == [SnapText(t) EXCEPT !.urls = us]
SnapHtml(h, t) == [SnapText(t) EXCEPT !.hasHtml = TRUE, !.html = h]

\* QUrl.toDisplayString() of a local file URL
UrlScheme == <<"f", "i", "l", "e", ":", "/", "/">>
DisplayString(url) == (IF url.local THEN UrlScheme ELSE <<"h", "t", "t", "p", ":", "/", "/">>) \o url.path

\* the URLs' display strings, one per line
RECURSIVE UrlLines(_)
UrlLines(urls) ==
    IF urls = <<>> THEN <<>>
    ELSE IF Len(urls) = 1 THEN DisplayString(urls[1])
    ELSE DisplayString(urls[1]) \o <<"\n">> \o UrlLines(Tail(urls))

\* QMimeData.hasText(): text/plain is offered, or URLs are
HasText(snap) == snap.hasText \/ snap.urls # <<>>

\* QClipboard.text(): the text/plain data, else the text made from the URLs
ClipboardText(snap) ==
    IF snap.hasText THEN snap.text
    ELSE IF snap.urls # <<>> THEN UrlLines(snap.urls)
    ELSE <<>>

\* a snapshot that offers URLs and nothing else (files copied in a file manager)
SnapUrlsOnly(us) == [NoSnapshot EXCEPT !.urls = us]

\* what other applications put on the clipboard
Snapshots ==
    { SnapText(TextA), SnapText(TextB), SnapText(<<" ">>),
      SnapImage(ImgOpaque, TextA), SnapImage(ImgAlpha, TextB), SnapImage(ImgBig, TextB),
      SnapImage(NullImage, TextB),
      SnapUrls(<<LocalUrl(PathF)>>, PathF), SnapUrls(<<RemoteUrl(PathF)>>, TextB),
      [SnapImage(ImgOpaque, PathF) EXCEPT !.urls = <<LocalUrl(PathF)>>],
      SnapUrlsOnly(<<LocalUrl(PathF)>>),
      SnapHtml(HtmlLong, TextA), SnapHtml(HtmlShort, TextB) }

(***************************************************************************)
(* Content Classifier and Dedup Guard of on_clipboard_change.              *)
(***************************************************************************)
RECURSIVE LocalFiles(_)
\* [u.toLocalFile() for u in urls if u.isLocalFile()]
LocalFiles(urls) ==
    IF urls = <<>> THEN <<>>
    ELSE (IF Head(urls).local THEN <<Head(urls).path>> ELSE <<>>) \o LocalFiles(Tail(urls))

NoCandidate == [tier |-> "none", content |-> NullText, image |-> NullImage,
                format |-> "none", hash |-> EmptyHash]

ImageCandidate(snap) ==
    [tier |-> "image", content |-> NullText, image |-> snap.image, format |-> "image",
     hash |-> MD5(SaveImage(snap.image, "PNG", -1))]

TextCandidate(tier, text, fmt) ==
    [tier |-> tier, content |-> text, image |-> NullImage, format |-> fmt,
     hash |-> MD5(Utf8(text))]

\* the tier on_clipboard_change selects and the content and hash it computes
Classify(snap, cfg) ==
    IF snap.hasImage /\ ~IsNull(snap.image)
    THEN ImageCandidate(snap)
    ELSE IF cfg.enable_file_paths /\ snap.urls # <<>> /\ LocalFiles(snap.urls) # <<>>
    THEN TextCandidate("file", Join(LocalFiles(snap.urls)), "file")
    ELSE IF cfg.enable_rich_text /\ snap.hasHtml /\ Len(snap.html) > HTML_MIN_LENGTH
    THEN TextCandidate("html", snap.html, "html")
    ELSE IF HasText(snap) /\ Strip(ClipboardText(snap)) # <<>>
    THEN TextCandidate("text", Strip(ClipboardText(snap)), "plain")
    ELSE NoCandidate

\* variant: the guard is not applied
GuardMissing(hash, last_hash, rows) == TRUE

\* current_hash != self.last_clipboard_hash and not check_duplicate_hash(...)
ShouldCapture(hash, last_hash, rows) ==
    hash # last_hash /\ ~CheckDuplicateHash(rows, hash)

(***************************************************************************)
(* Image Ingest Pipeline (ImageProcessWorker.run up to the INSERT).        *)
(***************************************************************************)
PersistImage(image, max_area, save_original) ==
    IF ~save_original /\ image.w * image.h > max_area
    THEN Scaled(image, ScaledSide(image.w, image.h, max_area),
                       ScaledSide(image.h, image.w, max_area))
    ELSE image

\* the images the resize step may leave, new_width and new_height computed in
\* double precision
PersistImages(image, max_area, save_original) ==
    IF ~save_original /\ image.w * image.h > max_area
    THEN {Scaled(image, new_width, new_height) :
            new_width \in ScaledSides(image.w, image.h, max_area),
            new_height \in ScaledSides(image.h, image.w, max_area)}
    ELSE {image}

\* ImageProcessWorker.run from the thumbnail on, for the image to persist
Encoded(persist) ==
    LET thumb == Scaled(persist, THUMBNAIL_SIZE, THUMBNAIL_SIZE)
        fmt == IF persist.alpha THEN "PNG" ELSE "JPEG"
        quality == IF fmt = "PNG" THEN -1 ELSE JPEG_QUALITY
        data == SaveImage(persist, fmt, quality)
    IN  [data |-> data, thumbnail |-> SaveImage(thumb, "PNG", -1), format |-> fmt,
         width |-> persist.w, height |-> persist.h, content_hash |-> MD5(data)]

\* ImageProcessWorker.run up to the INSERT, for images whose scaled sides the
\* double computation gives exactly
ProcessImage(image, max_area, save_original) ==
    Encoded(PersistImage(image, max_area, save_original))

\* what may go wrong in one run of the pipeline without an exception: scaled()
\* returns a null image, save() returns False and leaves its buffer empty
ImageFailures == {"none", "resize", "thumbnail", "encode"}

\* ImageProcessWorker.run up to the INSERT, under one of the failures: the
\* results of scaled() and save() are used unchecked
ProcessImageUnder(failure, image, max_area, save_original) ==
    LET persist == IF failure = "resize" /\ ~save_original
                      /\ image.w * image.h > max_area
                   THEN NullImage
                   ELSE PersistImage(image, max_area, save_original)
        thumb == Scaled(persist, THUMBNAIL_SIZE, THUMBNAIL_SIZE)
        fmt == IF persist.alpha THEN "PNG" ELSE "JPEG"
        quality == IF fmt = "PNG" THEN -1 ELSE JPEG_QUALITY
        data == IF failure = "encode" THEN EmptyBytes
                ELSE SaveImage(persist, fmt, quality)
    IN  [data |-> data,
         thumbnail |-> IF failure = "thumbnail" THEN EmptyBytes
                       ELSE SaveImage(thumb, "PNG", -1),
         format |-> fmt, width |-> persist.w, height |-> persist.h,
         content_hash |-> MD5(data)]

(***************************************************************************)
(* State of ClipKeepApp, the database file, the system clipboard, the      *)
(* thread pool and the UI thread's event queue.                            *)
(***************************************************************************)
VARIABLES
    records,              \* rows of the records table
    seq,                  \* AUTOINCREMENT counter of the table
    clock,                \* the latest reading of datetime.now().timestamp()
    settings,             \* self.settings
    max_history,          \* self.max_history
    is_internal_copy,     \* self.is_internal_copy
    last_clipboard_hash,  \* self.last_clipboard_hash
    current_record,       \* self.current_record
    pending_save_id,      \* self._pending_save_id (0 is None)
    pending_save_text,    \* self._pending_save_text
    save_timer,           \* self._save_timer is running
    history_list,         \* items of self.history_list
    current_item,         \* record id of history_list.currentItem() (0: none)
    editor_visible,       \* self.text_editor is shown
    clipboard,            \* what the system clipboard holds
    notifications,        \* dataChanged notifications not yet delivered
    threadpool,           \* runnables started and not finished
    events,               \* worker signals queued for the UI thread
    steps,                \* what the user and other applications have done so far
    last_notification,    \* history: the notification handled last
    edit_log,             \* history: edits, debounce runs, update calls
    trim_log,             \* history: direct calls of trim_to_limit
    store_log,            \* history: the last direct call of a store operation
    signal_log            \* history: the signals the last finished runnable emitted

vars == <<records, seq, clock, settings, max_history, is_internal_copy,
          last_clipboard_hash, current_record, pending_save_id, pending_save_text,
          save_timer, history_list, current_item, editor_visible, clipboard,
          notifications, threadpool, events, steps, last_notification,
          edit_log, trim_log, store_log, signal_log>>

dbVars == <<records, seq>>
debounceVars == <<pending_save_id, pending_save_text, save_timer>>
viewVars == <<history_list, current_item, editor_visible, current_record>>
guardVars == <<is_internal_copy, last_clipboard_hash>>
settingVars == <<settings, max_history>>

HistoryLimits == 1..MaxLimit

SettingsChoices ==
    [max_history : HistoryLimits, save_original_image : BOOLEAN,
     enable_rich_text : BOOLEAN, enable_file_paths : BOOLEAN]

\* texts the user may leave in the editor
TypedTexts == {<<"x">>, <<"y">>}

NoTask == [kind |-> "none", limit |-> 0, record_id |-> 0, image |-> NullImage,
           max_area |-> 0, save_original |-> FALSE, pc |-> "run", probe |-> 0]

LoadAllTask(limit) == [NoTask EXCEPT !.kind = "load_all", !.limit = limit]
GetDetailTask(id) == [NoTask EXCEPT !.kind = "get_detail", !.record_id = id]
ImageTask(image, max_area, save_original) ==
    [NoTask EXCEPT !.kind = "image", !.image = image, !.max_area = max_area,
                   !.save_original = save_original]
SelfCheckTask == [NoTask EXCEPT !.kind = "self_check", !.pc = "insert"]

\* QThreadPool.start(worker) and the end of a worker's run: the pool is a bag,
\* its runnables run in any order
Start(pool, task) == pool (+) SetToBag({task})
Finish(pool, task) == pool (-) SetToBag({task})

NoEvent == [signal |-> "none", list |-> <<>>, record |-> NoRecord, ok |-> TRUE]

\* origin: who caused it; tier, verdict: what the handler decided; same: the
\* clipboard still offers the candidate it met and no copy-back has been made
\* since; intact: same, and no row has been removed and no setting changed
\* since; repeat: intact held when it was handled
NoNotification ==
    [origin |-> "none", tier |-> "none", verdict |-> "none", repeat |-> FALSE,
     same |-> FALSE, intact |-> FALSE]

\* calls: direct calls made; before: the table the last call was given;
\* removed: rows the calls have deleted
NoTrims == [calls |-> 0, before |-> {}, removed |-> 0]

\* the results a store operation may return
IntResult(n) == [type |-> "int", int |-> n, bool |-> FALSE]
BoolResult(b) == [type |-> "bool", int |-> 0, bool |-> b]
NoneResult == [type |-> "None", int |-> 0, bool |-> FALSE]

\* op: the operation called last; failed: the storage layer failed in it;
\* raised: an exception left the operation; result: what it returned;
\* before: the table it was given
NoCalls == [op |-> "none", failed |-> FALSE, raised |-> FALSE, result |-> NoneResult,
            before |-> {}]

\* kind: the runnable; raised: an exception reached run's except clause;
\* output: the run produced an output (a list, a record found, a hash, a
\* report); result, error, finished: how often each signal was emitted
NoSignals == [kind |-> "none", raised |-> FALSE, output |-> FALSE,
              result |-> 0, error |-> 0, finished |-> 0]

NoEdits == [edits |-> 0, runs |-> 0, updates |-> 0, id |-> 0, text |-> NullText,
            update_id |-> 0, update_text |-> NullText, switched |-> FALSE]

\* the state a constructor leaves: settings.json holds one of options, the
\* database file holds one of tables, made rows have been inserted so far,
\* pool holds the runnables started
Constructed(options, tables, made, pool) ==
    /\ records \in tables
    /\ seq = made
    /\ clock = made
    /\ settings \in options
    /\ max_history = settings.max_history
    /\ is_internal_copy = FALSE
    /\ last_clipboard_hash = EmptyHash
    /\ current_record = NoRecord
    /\ pending_save_id = 0
    /\ pending_save_text = NullText
    /\ save_timer = FALSE
    /\ history_list = <<>>
    /\ current_item = 0
    /\ editor_visible = FALSE
    /\ clipboard = NoSnapshot
    /\ notifications = <<>>
    /\ threadpool = pool
    /\ events = <<>>
    /\ steps = 0
    /\ last_notification = NoNotification
    /\ edit_log = NoEdits
    /\ trim_log = NoTrims
    /\ store_log = NoCalls
    /\ signal_log = NoSignals

\* ClipKeepApp.__init__ of the later build on a new database: the self-check
\* has been started
Launched(options) == Constructed(options, {{}}, 0, Start(EmptyBag, SelfCheckTask))

Init == Launched(SettingsChoices)

\* the later build once SelfCheckWorker has inserted and deleted its probe row
\* and its result has been handled
Started(options) == Constructed(options, {{}}, 1, EmptyBag)

\* ClipKeepApp.__init__ of the earlier build on a new database: the first
\* refresh has been started
EarlierLaunched(options) ==
    Constructed(options, {{}}, 0, Start(EmptyBag, LoadAllTask(settings.max_history)))

(***************************************************************************)
(* Helpers shared by the handlers.                                         *)
(***************************************************************************)

\* datetime.now().timestamp(): the wall clock advances between two inserts
\* (equal timestamps are the subject of SpecTrim)
Now == {clock + 1}
\* at most MaxTasks runnables started by handlers are in the pool at a time;
\* the start-up self-check runs beside them
CanStart(pool) ==
    BagCardinality(pool)
        - (IF \E t \in BagToSet(pool) : t.kind = "self_check" THEN 1 ELSE 0) < MaxTasks

\* the user or another application does one more thing
Step == steps < MaxSteps /\ steps' = steps + 1 /\ UNCHANGED <<trim_log, store_log, signal_log>>

RemoveAt(s, i) == SubSeq(s, 1, i - 1) \o SubSeq(s, i + 1, Len(s))

\* a row was removed: a later notification no longer follows the one handled
\* last with the store as that one left it
Removed(before, after) ==
    IF \E r \in before : ~\E q \in after : q.id = r.id
    THEN [last_notification EXCEPT !.intact = FALSE]
    ELSE last_notification

(***************************************************************************)
(* The environment: other applications change the clipboard, time passes.  *)
(***************************************************************************)
\* another application puts one of the offered contents on the clipboard while
\* fewer than depth notifications are undelivered
ExternalCopy(offered, depth) ==
    /\ Step
    /\ Len(notifications) < depth
    /\ \E snap \in offered :
        /\ clipboard' = snap
        /\ last_notification' =
               IF Classify(snap, settings) = Classify(clipboard, settings)
               THEN last_notification
               ELSE [last_notification EXCEPT !.same = FALSE, !.intact = FALSE]
    /\ notifications' = Append(notifications, "external")
    /\ UNCHANGED <<dbVars, clock, settingVars, guardVars, debounceVars, viewVars,
                   threadpool, events, edit_log>>

(***************************************************************************)
(* ClipKeepApp.on_clipboard_change with add_text_record and                *)
(* add_image_record_async.                                                 *)
(***************************************************************************)
\* ClipKeepApp.add_text_record: insert, trim, refresh
AppAddTextRecord(text, fmt) ==
    /\ CanStart(threadpool)
    /\ \E now \in Now :
        /\ clock' = now
        /\ \E kept \in TrimToLimit(DbAddTextRecord(records, seq + 1, now, text, fmt),
                                   max_history) : records' = kept
    /\ seq' = seq + 1
    /\ threadpool' = Start(threadpool, LoadAllTask(max_history))

\* ClipKeepApp.add_image_record_async: start an ImageProcessWorker
AppAddImageRecordAsync(image) ==
    /\ CanStart(threadpool)
    /\ threadpool' = Start(threadpool, ImageTask(image, MAX_IMAGE_AREA_PIXELS, settings.save_original_image))
    /\ UNCHANGED <<dbVars, clock>>

Verdict(cand, last_hash, rows) ==
    IF cand.tier = "none" THEN "ignored"
    ELSE IF cand.hash = last_hash THEN "duplicate_last"
    ELSE IF CheckDuplicateHash(rows, cand.hash) THEN "duplicate_db"
    ELSE "captured"

\* variant: a tier rejected by the guard hands over to the plain text tier
FallsThroughOnDuplicate ==
    /\ notifications # <<>>
    /\ notifications' = Tail(notifications)
    /\ LET origin == Head(notifications)
           first == Classify(clipboard, settings)
           text == Strip(ClipboardText(clipboard))
           cand == IF first.tier \in {"image", "file", "html"}
                      /\ ~ShouldCapture(first.hash, last_clipboard_hash, records)
                      /\ HasText(clipboard) /\ text # <<>>
                   THEN TextCandidate("text", text, "plain")
                   ELSE first
           note == [origin |-> origin, tier |-> cand.tier,
                    verdict |-> Verdict(cand, last_clipboard_hash, records),
                    repeat |-> last_notification.intact,
                    same |-> cand.tier # "none",
                    intact |-> cand.tier # "none"]
       IN  IF is_internal_copy
           THEN /\ is_internal_copy' = FALSE
                /\ last_notification' =
                       [NoNotification EXCEPT !.origin = origin, !.verdict = "consumed"]
                /\ UNCHANGED <<dbVars, clock, last_clipboard_hash, threadpool>>
           ELSE IF cand.tier # "none"
                   /\ ShouldCapture(cand.hash, last_clipboard_hash, records)
           THEN /\ last_clipboard_hash' = cand.hash
                /\ IF cand.tier = "image"
                   THEN /\ AppAddImageRecordAsync(cand.image)
                        /\ last_notification' = note
                   ELSE /\ AppAddTextRecord(cand.content, cand.format)
                        /\ last_notification' = note
                /\ UNCHANGED is_internal_copy
           ELSE /\ last_notification' = note
                /\ UNCHANGED <<dbVars, clock, guardVars, threadpool>>
    /\ UNCHANGED <<settingVars, debounceVars, viewVars, clipboard, events, edit_log>>
    /\ UNCHANGED <<steps, trim_log, store_log, signal_log>>

OnClipboardChange ==
    /\ notifications # <<>>
    /\ notifications' = Tail(notifications)
    /\ LET origin == Head(notifications)
           cand == Classify(clipboard, settings)
           note == [origin |-> origin, tier |-> cand.tier,
                    verdict |-> Verdict(cand, last_clipboard_hash, records),
                    repeat |-> last_notification.intact,
                    same |-> cand.tier # "none",
                    intact |-> cand.tier # "none"]
       IN  IF is_internal_copy
           THEN /\ is_internal_copy' = FALSE
                /\ last_notification' =
                       [NoNotification EXCEPT !.origin = origin, !.verdict = "consumed"]
                /\ UNCHANGED <<dbVars, clock, last_clipboard_hash, threadpool>>
           ELSE IF cand.tier # "none"
                   /\ ShouldCapture(cand.hash, last_clipboard_hash, records)
           THEN /\ last_clipboard_hash' = cand.hash
                /\ IF cand.tier = "image"
                   THEN /\ AppAddImageRecordAsync(cand.image)
                        /\ last_notification' = note
                   ELSE /\ AppAddTextRecord(cand.content, cand.format)
                        /\ last_notification' = note
                /\ UNCHANGED is_internal_copy
           ELSE /\ last_notification' = note
                /\ UNCHANGED <<dbVars, clock, guardVars, threadpool>>
    /\ UNCHANGED <<settingVars, debounceVars, viewVars, clipboard, events, edit_log>>
    /\ UNCHANGED <<steps, trim_log, store_log, signal_log>>

\* ClipKeepApp.on_clipboard_change when a text tier passes the guard and the
\* INSERT of ClipboardDatabase.add_text_record fails: add_text_record returns
\* 0, its result is not looked at, and trim_to_limit and the refresh follow
OnClipboardChangeInsertFails ==
    /\ notifications # <<>>
    /\ notifications' = Tail(notifications)
    /\ ~is_internal_copy
    /\ LET cand == Classify(clipboard, settings)
       IN  /\ cand.tier \notin {"none", "image"}
           /\ ShouldCapture(cand.hash, last_clipboard_hash, records)
           /\ last_clipboard_hash' = cand.hash
           /\ last_notification' =
                  [origin |-> Head(notifications), tier |-> cand.tier,
                   verdict |-> "insert_failed", repeat |-> last_notification.intact,
                   same |-> TRUE, intact |-> TRUE]
    /\ CanStart(threadpool)
    /\ \E kept \in TrimToLimit(records, max_history) : records' = kept
    /\ threadpool' = Start(threadpool, LoadAllTask(max_history))
    /\ UNCHANGED <<seq, clock, is_internal_copy>>
    /\ UNCHANGED <<settingVars, debounceVars, viewVars, clipboard, events, edit_log>>
    /\ UNCHANGED <<steps, trim_log, store_log, signal_log>>

(***************************************************************************)
(* Copy-back: what copy_selected_to_system writes to the clipboard.        *)
(***************************************************************************)
\* index of the first ">" of s, 0 if none
RECURSIVE FirstClose(_, _)
FirstClose(s, i) ==
    IF i > Len(s) THEN 0 ELSE IF s[i] = ">" THEN i ELSE FirstClose(s, i + 1)

\* re.sub(r'<[^>]+>', '', html)
RECURSIVE DropTags(_)
DropTags(s) ==
    IF s = <<>> THEN <<>>
    ELSE IF Head(s) = "<" /\ FirstClose(s, 2) >= 3
    THEN DropTags(SubSeq(s, FirstClose(s, 2) + 1, Len(s)))
    ELSE <<Head(s)>> \o DropTags(Tail(s))

\* re.sub(r'\s+', ' ', html)
RECURSIVE CollapseSpace(_)
CollapseSpace(s) ==
    IF s = <<>> THEN <<>>
    ELSE IF Head(s) \in Whitespace
    THEN <<" ">> \o CollapseSpace(LStrip(s))
    ELSE <<Head(s)>> \o CollapseSpace(Tail(s))

\* ClipKeepApp.strip_html_tags on HTML without script or style elements and
\* without character entities
StripHtmlTags(html) == Strip(CollapseSpace(DropTags(html)))

\* str.split('\n')
RECURSIVE SplitLines(_, _)
SplitLines(s, line) ==
    IF s = <<>> THEN <<line>>
    ELSE IF Head(s) = "\n" THEN <<line>> \o SplitLines(Tail(s), <<>>)
    ELSE SplitLines(Tail(s), Append(line, Head(s)))

RECURSIVE LocalUrls(_)
LocalUrls(paths) ==
    IF paths = <<>> THEN <<>>
    ELSE (IF Strip(Head(paths)) # <<>> THEN <<LocalUrl(Strip(Head(paths)))>> ELSE <<>>)
         \o LocalUrls(Tail(paths))

\* the QMimeData copy_selected_to_system builds from a record
CopiedSnapshot(rec) ==
    IF rec.type = "text" /\ rec.format = "html"
    THEN SnapHtml(rec.content, StripHtmlTags(rec.content))
    ELSE IF rec.type = "text" /\ rec.format = "file"
    THEN SnapUrls(LocalUrls(SplitLines(rec.content, <<>>)), rec.content)
    ELSE IF rec.type = "text"
    THEN SnapText(rec.content)
    ELSE [NoSnapshot EXCEPT !.hasImage = TRUE, !.image = rec.image]

(***************************************************************************)
(* User actions on the history list.                                       *)
(***************************************************************************)
\* ClipKeepApp.refresh_history_async
RefreshHistoryAsync(pool) == Start(pool, LoadAllTask(max_history))

\* ClipKeepApp.copy_selected_to_system
CopySelectedToSystem ==
    IF current_record = NoRecord
    THEN UNCHANGED <<is_internal_copy, clipboard, notifications, last_notification>>
    ELSE /\ is_internal_copy' = TRUE
         /\ clipboard' = CopiedSnapshot(current_record)
         /\ notifications' = Append(notifications, "internal")
         /\ last_notification' =
                [last_notification EXCEPT !.same = FALSE, !.intact = FALSE]

\* the current item changes to another item by keyboard: on_item_selected
SelectItem ==
    /\ Step
    /\ \E i \in 1..Len(history_list) :
        /\ history_list[i].id # current_item
        /\ current_item' = history_list[i].id
        /\ CanStart(threadpool)
        /\ threadpool' = Start(threadpool, GetDetailTask(history_list[i].id))
    /\ editor_visible' = FALSE
    /\ UNCHANGED <<dbVars, clock, settingVars, guardVars, debounceVars, history_list,
                   current_record, clipboard, notifications, events,
                   last_notification, edit_log>>

\* a mouse click on an item: on_item_selected when the current item changes,
\* then on_item_clicked
ClickItem ==
    /\ Step
    /\ \E i \in 1..Len(history_list) :
        IF history_list[i].id # current_item
        THEN /\ current_item' = history_list[i].id
             /\ CanStart(threadpool)
             /\ threadpool' = Start(threadpool, GetDetailTask(history_list[i].id))
             /\ editor_visible' = FALSE
        ELSE UNCHANGED <<current_item, threadpool, editor_visible>>
    /\ CopySelectedToSystem
    /\ UNCHANGED <<dbVars, clock, settingVars, last_clipboard_hash, debounceVars,
                   history_list, current_record, events, edit_log>>

\* position of the item with record id in the list, 0 if none
RowOf(list, id) ==
    IF \E i \in 1..Len(list) : list[i].id = id
    THEN CHOOSE i \in 1..Len(list) : list[i].id = id
    ELSE 0

\* ClipKeepApp.delete_selected: delete_record, takeItem (the current item moves
\* to a neighbour and on_item_selected runs for it), clear_detail_view
DeleteSelected ==
    /\ Step
    /\ current_item # 0
    /\ LET row == RowOf(history_list, current_item)
           rest == RemoveAt(history_list, row)
           next == IF rest = <<>> THEN 0
                   ELSE IF row <= Len(rest) THEN rest[row].id ELSE rest[Len(rest)].id
       IN  /\ records' = DeleteRecord(records, current_item)
           /\ history_list' = rest
           /\ current_item' = next
           /\ IF next # 0
              THEN /\ CanStart(threadpool)
                   /\ threadpool' = Start(threadpool, GetDetailTask(next))
              ELSE UNCHANGED threadpool
    /\ current_record' = NoRecord
    /\ editor_visible' = FALSE
    /\ last_notification' = Removed(records, records')
    /\ UNCHANGED <<seq, clock, settingVars, guardVars, debounceVars, clipboard,
                   notifications, events, edit_log>>

\* ClipKeepApp.clear_history, the user confirming
ClearHistory ==
    /\ Step
    /\ GetCount(records) # 0
    /\ records' = ClearAll(records)
    /\ history_list' = <<>>
    /\ current_item' = 0
    /\ current_record' = NoRecord
    /\ editor_visible' = FALSE
    /\ last_notification' = Removed(records, records')
    /\ UNCHANGED <<seq, clock, settingVars, guardVars, debounceVars, clipboard,
                   notifications, threadpool, events, edit_log>>

\* ClipKeepApp.open_settings_dialog, the dialog accepted with one of options
OpenSettingsDialog(options) ==
    /\ Step
    /\ CanStart(threadpool)
    /\ \E new \in options :
        /\ settings' = new
        /\ max_history' = new.max_history
        /\ \E kept \in TrimToLimit(records, new.max_history) : records' = kept
        /\ threadpool' = Start(threadpool, LoadAllTask(new.max_history))
    /\ last_notification' =
           [last_notification EXCEPT
                !.same = @ /\ Classify(clipboard, settings') = Classify(clipboard, settings),
                !.intact = FALSE]
    /\ UNCHANGED <<seq, clock, guardVars, debounceVars, viewVars, clipboard,
                   notifications, events, edit_log>>

(***************************************************************************)
(* Edit-Back Debouncer.                                                    *)
(***************************************************************************)
\* QTextEdit.toHtml() of a document holding the typed text
ToHtml(text) == <<"<", "h", "t", "m", "l", ">">> \o text \o <<"<", "/", "h", "t", "m", "l", ">">>

\* ClipKeepApp.on_text_edited: the user changes the visible editor's text
OnTextEdited ==
    /\ Step
    /\ editor_visible
    /\ \E typed \in TypedTexts :
        IF current_record = NoRecord \/ current_record.type # "text"
        THEN UNCHANGED <<debounceVars, edit_log>>
        ELSE LET new_text == IF current_record.format = "html" THEN ToHtml(typed)
                             ELSE typed
             IN  /\ pending_save_id' = current_record.id
                 /\ pending_save_text' = new_text
                 /\ save_timer' = TRUE
                 /\ edit_log' = [edit_log EXCEPT
                        !.edits = IF save_timer THEN @ + 1 ELSE 1,
                        !.runs = IF save_timer THEN @ ELSE @ + 1,
                        !.id = current_record.id,
                        !.text = new_text,
                        !.switched = IF save_timer THEN @ ELSE FALSE]
    /\ UNCHANGED <<dbVars, clock, settingVars, guardVars, viewVars, clipboard,
                   notifications, threadpool, events, last_notification>>

\* variant: the write is made and the pending id and text are kept
SaveKeepsPending ==
    /\ save_timer
    /\ save_timer' = FALSE
    /\ IF pending_save_id # 0 /\ pending_save_text # NullText
       THEN /\ records' = UpdateTextContent(records, pending_save_id, pending_save_text)
            /\ edit_log' = [edit_log EXCEPT !.updates = @ + 1,
                                            !.update_id = pending_save_id,
                                            !.update_text = pending_save_text]
       ELSE UNCHANGED <<records, edit_log>>
    /\ UNCHANGED <<pending_save_id, pending_save_text>>
    /\ UNCHANGED <<seq, clock, settingVars, guardVars, viewVars, clipboard,
                   notifications, threadpool, events, last_notification>>
    /\ UNCHANGED <<steps, trim_log, store_log, signal_log>>

\* variant: the write goes to the record shown when the timer fires
SaveToCurrentRecord ==
    /\ save_timer
    /\ save_timer' = FALSE
    /\ IF pending_save_id # 0 /\ pending_save_text # NullText
       THEN /\ records' = UpdateTextContent(records, current_record.id, pending_save_text)
            /\ pending_save_id' = 0
            /\ pending_save_text' = NullText
            /\ edit_log' = [edit_log EXCEPT !.updates = @ + 1,
                                            !.update_id = current_record.id,
                                            !.update_text = pending_save_text]
       ELSE UNCHANGED <<records, pending_save_id, pending_save_text, edit_log>>
    /\ UNCHANGED <<seq, clock, settingVars, guardVars, viewVars, clipboard,
                   notifications, threadpool, events, last_notification>>
    /\ UNCHANGED <<steps, trim_log, store_log, signal_log>>

\* ClipKeepApp._do_save_pending: the save timer times out
DoSavePending ==
    /\ save_timer
    /\ save_timer' = FALSE
    /\ IF pending_save_id # 0 /\ pending_save_text # NullText
       THEN /\ records' = UpdateTextContent(records, pending_save_id, pending_save_text)
            /\ pending_save_id' = 0
            /\ pending_save_text' = NullText
            /\ edit_log' = [edit_log EXCEPT !.updates = @ + 1,
                                            !.update_id = pending_save_id,
                                            !.update_text = pending_save_text]
       ELSE UNCHANGED <<records, pending_save_id, pending_save_text, edit_log>>
    /\ UNCHANGED <<seq, clock, settingVars, guardVars, viewVars, clipboard,
                   notifications, threadpool, events, last_notification>>
    /\ UNCHANGED <<steps, trim_log, store_log, signal_log>>

(***************************************************************************)
(* Background workers: each step is one SQL statement on the worker's own  *)
(* connection, followed by the signals the worker emits.                   *)
(***************************************************************************)
Event(signal) == [NoEvent EXCEPT !.signal = signal]

\* DBWorker.run, mode load_all
RunLoadAll ==
    /\ \E t \in BagToSet(threadpool) :
        /\ t.kind = "load_all"
        /\ Len(events) < MaxEvents
        /\ \E out \in LoadAll(records, t.limit) :
            events' = Append(events, [Event("history_loaded") EXCEPT !.list = out])
        /\ threadpool' = Finish(threadpool, t)
    /\ UNCHANGED <<dbVars, clock, settingVars, guardVars, debounceVars, viewVars,
                   clipboard, notifications, last_notification, edit_log>>
    /\ UNCHANGED <<steps, trim_log, store_log, signal_log>>

\* DBWorker.run, mode get_detail
RunGetDetail ==
    /\ \E t \in BagToSet(threadpool) :
        /\ t.kind = "get_detail"
        /\ Len(events) < MaxEvents
        /\ events' = Append(events, [Event("detail_loaded") EXCEPT
                                !.record = GetDetail(records, t.record_id)])
        /\ threadpool' = Finish(threadpool, t)
    /\ UNCHANGED <<dbVars, clock, settingVars, guardVars, debounceVars, viewVars,
                   clipboard, notifications, last_notification, edit_log>>
    /\ UNCHANGED <<steps, trim_log, store_log, signal_log>>

\* ImageProcessWorker.run
RunImageProcess ==
    /\ \E t \in BagToSet(threadpool) :
        /\ t.kind = "image"
        /\ Len(events) + 2 <= MaxEvents
        /\ LET p == ProcessImage(t.image, t.max_area, t.save_original)
           IN  \E now \in Now :
                /\ clock' = now
                /\ records' = records \cup
                       {ImageRow(seq + 1, now, p.data, p.thumbnail, p.format,
                                 p.width, p.height, p.content_hash)}
        /\ seq' = seq + 1
        /\ events' = events \o <<Event("image_saved"), Event("image_finished")>>
        /\ threadpool' = Finish(threadpool, t)
    /\ UNCHANGED <<settingVars, guardVars, debounceVars, viewVars, clipboard,
                   notifications, last_notification, edit_log>>
    /\ UNCHANGED <<steps, trim_log, store_log, signal_log>>

\* ImageProcessWorker.run for any image, the scaled sides as the double
\* computation may give them
RunImageProcessRounded ==
    /\ \E t \in BagToSet(threadpool) :
        /\ t.kind = "image"
        /\ Len(events) + 2 <= MaxEvents
        /\ \E persist \in PersistImages(t.image, t.max_area, t.save_original) :
           LET p == Encoded(persist)
           IN  \E now \in Now :
                /\ clock' = now
                /\ records' = records \cup
                       {ImageRow(seq + 1, now, p.data, p.thumbnail, p.format,
                                 p.width, p.height, p.content_hash)}
        /\ seq' = seq + 1
        /\ events' = events \o <<Event("image_saved"), Event("image_finished")>>
        /\ threadpool' = Finish(threadpool, t)
    /\ UNCHANGED <<settingVars, guardVars, debounceVars, viewVars, clipboard,
                   notifications, last_notification, edit_log>>
    /\ UNCHANGED <<steps, trim_log, store_log, signal_log>>

\* ImageProcessWorker.run when scaled() or save() may fail
RunImageProcessFaulty ==
    /\ \E t \in BagToSet(threadpool) :
        /\ t.kind = "image"
        /\ Len(events) + 2 <= MaxEvents
        /\ \E failure \in ImageFailures :
           LET p == ProcessImageUnder(failure, t.image, t.max_area, t.save_original)
           IN  \E now \in Now :
                /\ clock' = now
                /\ records' = records \cup
                       {ImageRow(seq + 1, now, p.data, p.thumbnail, p.format,
                                 p.width, p.height, p.content_hash)}
        /\ seq' = seq + 1
        /\ events' = events \o <<Event("image_saved"), Event("image_finished")>>
        /\ threadpool' = Finish(threadpool, t)
    /\ UNCHANGED <<settingVars, guardVars, debounceVars, viewVars, clipboard,
                   notifications, last_notification, edit_log>>
    /\ UNCHANGED <<steps, trim_log, store_log, signal_log>>

ProbeText == <<"_", "t", "e", "s", "t", "_">>

\* SelfCheckWorker.run: INSERT of the probe row
SelfCheckInsert ==
    /\ \E t \in BagToSet(threadpool) :
        /\ t.kind = "self_check" /\ t.pc = "insert"
        /\ \E now \in Now :
            /\ clock' = now
            /\ records' = records \cup
                   {TextRow(seq + 1, now, ProbeText, "plain", NullHash)}
        /\ seq' = seq + 1
        /\ threadpool' = Start(Finish(threadpool, t),
                             [t EXCEPT !.pc = "delete", !.probe = seq + 1])
    /\ UNCHANGED <<settingVars, guardVars, debounceVars, viewVars, clipboard,
                   notifications, events, last_notification, edit_log>>
    /\ UNCHANGED <<steps, trim_log, store_log, signal_log>>

\* SelfCheckWorker.run: DELETE of the probe row, the other checks, the result
SelfCheckDelete ==
    /\ \E t \in BagToSet(threadpool) :
        /\ t.kind = "self_check" /\ t.pc = "delete"
        /\ Len(events) < MaxEvents
        /\ records' = DeleteRecord(records, t.probe)
        /\ \E ok \in BOOLEAN :
            events' = Append(events, [Event("self_check_complete") EXCEPT !.ok = ok])
        /\ threadpool' = Finish(threadpool, t)
    /\ UNCHANGED <<seq, clock, settingVars, guardVars, debounceVars, viewVars,
                   clipboard, notifications, last_notification, edit_log>>
    /\ UNCHANGED <<steps, trim_log, store_log, signal_log>>

\* the signals one run emits: result at the end of the try block, whatever the
\* output is; error in the except clause; finished in the finally clause
Emitted(kind, raised, output) ==
    [kind |-> kind, raised |-> raised, output |-> output,
     result |-> IF raised THEN 0 ELSE 1,
     error |-> IF raised THEN 1 ELSE 0,
     finished |-> 1]

\* DBWorker.run, ImageProcessWorker.run and SelfCheckWorker.run from start to
\* end, an exception reaching the except clause or not; the slots connected
\* to the signals emitted are queued for the UI thread
RunWorker ==
    /\ \E t \in BagToSet(threadpool) : \E raised \in BOOLEAN :
        /\ Len(events) + 2 <= MaxEvents
        /\ threadpool' = Finish(threadpool, t)
        /\ \/ /\ t.kind = "load_all"
              /\ \E out \in LoadAll(records, t.limit) :
                    events' = IF raised THEN events
                              ELSE Append(events, [Event("history_loaded") EXCEPT !.list = out])
              /\ signal_log' = Emitted(t.kind, raised, ~raised)
              /\ UNCHANGED <<dbVars, clock>>
           \/ /\ t.kind = "get_detail"
              /\ LET record == GetDetail(records, t.record_id)
                 IN  /\ events' = IF raised THEN events
                                  ELSE Append(events, [Event("detail_loaded") EXCEPT
                                                          !.record = record])
                     /\ signal_log' = Emitted(t.kind, raised, ~raised /\ record # NoRecord)
              /\ UNCHANGED <<dbVars, clock>>
           \/ /\ t.kind = "image"
              /\ IF raised
                 THEN /\ events' = Append(events, Event("image_finished"))
                      /\ UNCHANGED <<dbVars, clock>>
                 ELSE /\ LET p == ProcessImage(t.image, t.max_area, t.save_original)
                         IN  \E now \in Now :
                              /\ clock' = now
                              /\ records' = records \cup
                                     {ImageRow(seq + 1, now, p.data, p.thumbnail, p.format,
                                               p.width, p.height, p.content_hash)}
                      /\ seq' = seq + 1
                      /\ events' = events \o <<Event("image_saved"), Event("image_finished")>>
              /\ signal_log' = Emitted(t.kind, raised, ~raised)
           \/ /\ t.kind = "self_check"
              /\ IF raised
                 THEN UNCHANGED <<events, dbVars, clock>>
                 ELSE /\ \E ok \in BOOLEAN :
                           /\ events' = Append(events, [Event("self_check_complete")
                                                          EXCEPT !.ok = ok])
                           /\ IF ok THEN seq' = seq + 1 /\ \E now \in Now : clock' = now
                              ELSE UNCHANGED <<seq, clock>>
                      /\ UNCHANGED records
              /\ signal_log' = Emitted(t.kind, raised, ~raised)
    /\ UNCHANGED <<settingVars, guardVars, debounceVars, viewVars, clipboard,
                   notifications, last_notification, edit_log>>
    /\ UNCHANGED <<steps, trim_log, store_log>>

(***************************************************************************)
(* Worker signals delivered on the UI thread, in the order queued.         *)
(***************************************************************************)
\* ClipKeepApp.on_history_loaded: clearing the list drops the current item,
\* on_item_selected(None) then clears the detail view
OnHistoryLoaded ==
    /\ events # <<>> /\ Head(events).signal = "history_loaded"
    /\ events' = Tail(events)
    /\ history_list' = Head(events).list
    /\ current_item' = 0
    /\ IF current_item # 0
       THEN current_record' = NoRecord /\ editor_visible' = FALSE
       ELSE UNCHANGED <<current_record, editor_visible>>
    /\ UNCHANGED <<dbVars, clock, settingVars, guardVars, debounceVars, clipboard,
                   notifications, threadpool, last_notification, edit_log>>
    /\ UNCHANGED <<steps, trim_log, store_log, signal_log>>

\* ClipKeepApp.on_detail_loaded
OnDetailLoaded ==
    /\ events # <<>> /\ Head(events).signal = "detail_loaded"
    /\ events' = Tail(events)
    /\ LET record == Head(events).record
       IN  IF record = NoRecord
           THEN UNCHANGED <<current_record, editor_visible, edit_log>>
           ELSE /\ current_record' = record
                /\ editor_visible' = (editor_visible \/ record.type = "text")
                /\ edit_log' = [edit_log EXCEPT !.switched =
                                    @ \/ (save_timer /\ record.id # pending_save_id)]
    /\ UNCHANGED <<dbVars, clock, settingVars, guardVars, debounceVars, history_list,
                   current_item, clipboard, notifications, threadpool,
                   last_notification>>
    /\ UNCHANGED <<steps, trim_log, store_log, signal_log>>

\* ClipKeepApp.on_image_saved
OnImageSaved ==
    /\ events # <<>> /\ Head(events).signal = "image_saved"
    /\ events' = Tail(events)
    /\ CanStart(threadpool)
    /\ threadpool' = RefreshHistoryAsync(threadpool)
    /\ UNCHANGED <<dbVars, clock, settingVars, guardVars, debounceVars, viewVars,
                   clipboard, notifications, last_notification, edit_log>>
    /\ UNCHANGED <<steps, trim_log, store_log, signal_log>>

\* variant: nothing is connected to the image worker's finished signal
ImageFinishedWithoutTrim ==
    /\ events # <<>> /\ Head(events).signal = "image_finished"
    /\ events' = Tail(events)
    /\ UNCHANGED <<dbVars, clock, settingVars, guardVars, debounceVars, viewVars,
                   clipboard, notifications, threadpool, last_notification, edit_log>>
    /\ UNCHANGED <<steps, trim_log, store_log, signal_log>>

\* the lambda connected to the image worker's finished signal
OnImageFinished ==
    /\ events # <<>> /\ Head(events).signal = "image_finished"
    /\ events' = Tail(events)
    /\ \E kept \in TrimToLimit(records, max_history) : records' = kept
    /\ last_notification' = Removed(records, records')
    /\ UNCHANGED <<seq, clock, settingVars, guardVars, debounceVars, viewVars,
                   clipboard, notifications, threadpool, edit_log>>
    /\ UNCHANGED <<steps, trim_log, store_log, signal_log>>

\* ClipKeepApp.on_self_check_complete
OnSelfCheckComplete ==
    /\ events # <<>> /\ Head(events).signal = "self_check_complete"
    /\ events' = Tail(events)
    /\ IF Head(events).ok
       THEN CanStart(threadpool) /\ threadpool' = RefreshHistoryAsync(threadpool)
       ELSE UNCHANGED threadpool
    /\ UNCHANGED <<dbVars, clock, settingVars, guardVars, debounceVars, viewVars,
                   clipboard, notifications, last_notification, edit_log>>
    /\ UNCHANGED <<steps, trim_log, store_log, signal_log>>

(***************************************************************************)
(* The earlier build, src/ClipKeep.py: its clipboard handler. Its DBWorker *)
(* and on_history_loaded are the later build's.                            *)
(***************************************************************************)
PREVIEW_LENGTH == 80

\* text[:n]
Take(text, n) == SubSeq(text, 1, Min(n, Len(text)))

\* str.replace("\n", " ")
ReplaceNewlines(text) == [i \in 1..Len(text) |-> IF text[i] = "\n" THEN " " ELSE text[i]]

\* text[:80].replace("\n", " ")
Preview(text) == ReplaceNewlines(Take(text, PREVIEW_LENGTH))

\* the text on_history_loaded gives a list item; the labels of file lists,
\* HTML and images start with a pictograph no offered text holds
DisplayText(rec) ==
    IF rec.type = "text" /\ rec.format = "file" THEN <<"file list label">>
    ELSE IF rec.type = "text" /\ rec.format = "html" THEN <<"html label">>
    ELSE IF rec.type = "text" THEN Preview(rec.content)
    ELSE <<"image label">>

\* ClipKeepApp._is_duplicate
IsDuplicate(list, text) ==
    /\ Len(list) > 0
    /\ list[1].type = "text"
    /\ DisplayText(list[1]) = Preview(text)

EarlierCandidate(tier, text, image, fmt) ==
    [tier |-> tier, content |-> text, image |-> image, format |-> fmt,
     hash |-> EmptyHash]

\* the tier the earlier on_clipboard_change selects
ClassifyEarlier(snap, cfg) ==
    IF cfg.enable_file_paths /\ snap.urls # <<>> /\ LocalFiles(snap.urls) # <<>>
    THEN EarlierCandidate("file", Join(LocalFiles(snap.urls)), NullImage, "file")
    ELSE IF snap.hasImage /\ ~IsNull(snap.image)
    THEN EarlierCandidate("image", NullText, snap.image, "image")
    ELSE IF cfg.enable_rich_text /\ snap.hasHtml /\ Len(snap.html) > HTML_MIN_LENGTH
    THEN EarlierCandidate("html", snap.html, NullImage, "html")
    ELSE IF HasText(snap) /\ Strip(ClipboardText(snap)) # <<>>
    THEN EarlierCandidate("text", Strip(ClipboardText(snap)), NullImage, "plain")
    ELSE NoCandidate

\* ClipKeepApp.add_text_record of the earlier build (no content hash column)
AddTextRecordEarlier(text, fmt) ==
    /\ CanStart(threadpool)
    /\ \E now \in Now :
        /\ clock' = now
        /\ \E kept \in TrimToLimit(records \cup {TextRow(seq + 1, now, text, fmt, NullHash)},
                                   max_history) : records' = kept
    /\ seq' = seq + 1
    /\ threadpool' = RefreshHistoryAsync(threadpool)

\* ClipKeepApp.add_image_record of the earlier build: on the UI thread
AddImageRecordEarlier(image) ==
    /\ CanStart(threadpool)
    /\ LET p == ProcessImage(image, MAX_IMAGE_AREA_PIXELS, settings.save_original_image)
       IN  \E now \in Now :
            /\ clock' = now
            /\ \E kept \in TrimToLimit(
                       records \cup {ImageRow(seq + 1, now, p.data, p.thumbnail, p.format,
                                              p.width, p.height, NullHash)},
                       max_history) : records' = kept
    /\ seq' = seq + 1
    /\ threadpool' = RefreshHistoryAsync(threadpool)

\* ClipKeepApp.on_clipboard_change of the earlier build
OnClipboardChangeEarlier ==
    /\ notifications # <<>>
    /\ notifications' = Tail(notifications)
    /\ LET cand == ClassifyEarlier(clipboard, settings)
           note == [NoNotification EXCEPT !.origin = Head(notifications),
                                          !.tier = cand.tier]
       IN  IF is_internal_copy
           THEN /\ is_internal_copy' = FALSE
                /\ last_notification' = [note EXCEPT !.tier = "none", !.verdict = "consumed"]
                /\ UNCHANGED <<dbVars, clock, threadpool>>
           ELSE IF cand.tier = "image"
           THEN /\ AddImageRecordEarlier(cand.image)
                /\ last_notification' = [note EXCEPT !.verdict = "captured"]
                /\ UNCHANGED is_internal_copy
           ELSE IF cand.tier \in {"file", "html"}
                   \/ (cand.tier = "text" /\ ~IsDuplicate(history_list, cand.content))
           THEN /\ AddTextRecordEarlier(cand.content, cand.format)
                /\ last_notification' = [note EXCEPT !.verdict = "captured"]
                /\ UNCHANGED is_internal_copy
           ELSE /\ last_notification' =
                       [note EXCEPT !.verdict = IF cand.tier = "none" THEN "ignored"
                                                ELSE "duplicate_list"]
                /\ UNCHANGED <<dbVars, clock, is_internal_copy, threadpool>>
    /\ UNCHANGED <<last_clipboard_hash, settingVars, debounceVars, viewVars, clipboard,
                   events, edit_log>>
    /\ UNCHANGED <<steps, trim_log, store_log, signal_log>>

(***************************************************************************)
(* ClipboardDatabase.trim_to_limit called on its own, on any table.        *)
(***************************************************************************)
\* a row of a table: the content plays no part in trimming
TableRow(id, ts) == TextRow(id, ts, <<"r">>, "plain", NullHash)

\* the tables of at most MaxRows rows with timestamps up to MaxTime, equal
\* timestamps included
Tables ==
    {{TableRow(id, ts[id]) : id \in ids} :
        ids \in SUBSET (1..MaxRows), ts \in [1..MaxRows -> 0..MaxTime]}

\* ClipboardDatabase.trim_to_limit(max_history) called on the table
TrimToLimitCall ==
    /\ steps < MaxSteps
    /\ steps' = steps + 1
    /\ \E kept \in TrimToLimit(records, max_history) :
        /\ records' = kept
        /\ trim_log' = [calls |-> trim_log.calls + 1, before |-> records,
                        removed |-> trim_log.removed + Cardinality(records \ kept)]
    /\ UNCHANGED <<seq, clock, settingVars, guardVars, debounceVars, viewVars, clipboard,
                   notifications, threadpool, events, last_notification, edit_log,
                   store_log, signal_log>>

(***************************************************************************)
(* ClipboardDatabase operations called on their own, the storage layer     *)
(* failing or not. A failure strikes in cursor.execute, and the statement  *)
(* has no effect, or in conn.commit, and the statement's effect stays in   *)
(* the connection's open transaction: no operation rolls back.             *)
(***************************************************************************)
StoreWrites == {"add_text_record", "add_image_record", "update_text_content",
                "delete_record", "clear_all", "trim_to_limit"}
StoreReads == {"check_duplicate_hash", "get_count"}

\* where the storage layer may fail in an operation
Outcomes(op) ==
    IF op \in StoreWrites THEN {"ok", "execute_fails", "commit_fails"}
    ELSE {"ok", "execute_fails"}

\* the tables the operation's SQL statement may leave
Statement(op, rows, id, now, arg, limit) ==
    CASE op = "add_text_record" -> {DbAddTextRecord(rows, id, now, TextB, "plain")}
      [] op = "add_image_record" ->
            LET p == ProcessImage(ImgAlpha, MAX_IMAGE_AREA_PIXELS, FALSE)
            IN  {rows \cup {ImageRow(id, now, p.data, p.thumbnail, p.format,
                                      p.width, p.height, p.content_hash)}}
      [] op = "update_text_content" -> {UpdateTextContent(rows, arg, TextB)}
      [] op = "delete_record" -> {DeleteRecord(rows, arg)}
      [] op = "clear_all" -> {ClearAll(rows)}
      [] op = "trim_to_limit" -> TrimToLimit(rows, limit)
      [] OTHER -> {rows}

\* what the operation returns when nothing fails
Returned(op, rows, id) ==
    CASE op \in {"add_text_record", "add_image_record"} -> IntResult(id)
      [] op = "get_count" -> IntResult(GetCount(rows))
      [] op = "check_duplicate_hash" ->
            BoolResult(CheckDuplicateHash(rows, MD5(Utf8(TextB))))
      [] OTHER -> NoneResult

\* what the operation's except clause returns
OnError(op) ==
    CASE op \in {"add_text_record", "add_image_record", "get_count"} -> IntResult(0)
      [] op = "check_duplicate_hash" -> BoolResult(FALSE)
      [] OTHER -> NoneResult

\* one call of a ClipboardDatabase operation on the UI thread's connection
StoreCall ==
    /\ steps < MaxSteps
    /\ steps' = steps + 1
    /\ \E op \in StoreWrites \cup StoreReads : \E outcome \in Outcomes(op) :
       \E arg \in 1..MaxRows : \E now \in Now :
       \E after \in Statement(op, records, seq + 1, now, arg, max_history) :
        /\ records' = IF outcome = "execute_fails" THEN records ELSE after
        /\ IF op \in {"add_text_record", "add_image_record"} /\ outcome # "execute_fails"
           THEN seq' = seq + 1 /\ clock' = now
           ELSE UNCHANGED <<seq, clock>>
        /\ store_log' = [op |-> op, failed |-> outcome # "ok", raised |-> FALSE,
                         result |-> IF outcome = "ok" THEN Returned(op, records, seq + 1)
                                    ELSE OnError(op),
                         before |-> records]
    /\ UNCHANGED <<settingVars, guardVars, debounceVars, viewVars, clipboard,
                   notifications, threadpool, events, last_notification, edit_log,
                   trim_log, signal_log>>

Next ==
    \/ ExternalCopy(Snapshots, MaxNotifications)
    \/ OnClipboardChange
    \/ SelectItem
    \/ ClickItem
    \/ DeleteSelected
    \/ ClearHistory
    \/ OpenSettingsDialog(SettingsChoices)
    \/ OnTextEdited
    \/ DoSavePending
    \/ RunLoadAll
    \/ RunGetDetail
    \/ RunImageProcess
    \/ SelfCheckInsert
    \/ SelfCheckDelete
    \/ OnHistoryLoaded
    \/ OnDetailLoaded
    \/ OnImageSaved
    \/ OnImageFinished
    \/ OnSelfCheckComplete

Spec == Init /\ [][Next]_vars

(***************************************************************************)
(* Specifications by concern: each runs the handlers of one part of the    *)
(* program from the state its constructor leaves.                          *)
(***************************************************************************)
\* load_settings' defaults with a history limit out of limits
PlainSettings(limits) ==
    [max_history : limits, save_original_image : {FALSE},
     enable_rich_text : {TRUE}, enable_file_paths : {TRUE}]

TextSources == {SnapText(TextA), SnapText(TextB)}
MixedSources == {SnapText(TextA), SnapImage(ImgOpaque, TextA)}
CaptureSources == TextSources \cup {SnapImage(ImgOpaque, TextA)}
ImageSources ==
    { SnapText(TextB), SnapImage(ImgOpaque, TextA), SnapImage(ImgAlpha, TextB),
      SnapImage(ImgBig, TextB) }
EditSources == TextSources \cup {SnapHtml(HtmlLong, TextA)}
ClassifierSources ==
    { [SnapImage(ImgOpaque, PathF) EXCEPT !.urls = <<LocalUrl(PathF)>>],
      SnapImage(ImgAlpha, TextB), SnapUrls(<<LocalUrl(PathF)>>, PathF),
      SnapHtml(HtmlLong, TextA), SnapText(TextA) }

\* history size: captures of text and images, settings changes, clearing,
\* selecting and deleting
NextHistory ==
    \/ ExternalCopy(MixedSources, MaxNotifications)
    \/ OnClipboardChange
    \/ RunLoadAll
    \/ OnHistoryLoaded
    \/ RunImageProcess
    \/ OnImageSaved
    \/ OnImageFinished
    \/ OpenSettingsDialog(PlainSettings(HistoryLimits))
    \/ ClearHistory
    \/ SelectItem
    \/ RunGetDetail
    \/ OnDetailLoaded
    \/ DeleteSelected

SpecHistory == Started(PlainSettings(HistoryLimits)) /\ [][NextHistory]_vars

\* capture and dedup: captures of text and images, clearing
NextCapture ==
    \/ ExternalCopy(CaptureSources, MaxNotifications)
    \/ OnClipboardChange
    \/ RunLoadAll
    \/ OnHistoryLoaded
    \/ RunImageProcess
    \/ OnImageSaved
    \/ OnImageFinished
    \/ ClearHistory

SpecCapture == Started(PlainSettings(HistoryLimits)) /\ [][NextCapture]_vars

\* image capture and dedup: opaque, transparent and oversized images, with and
\* without save_original_image
NextImages ==
    \/ ExternalCopy(ImageSources, MaxNotifications)
    \/ OnClipboardChange
    \/ RunLoadAll
    \/ OnHistoryLoaded
    \/ RunImageProcess
    \/ OnImageSaved
    \/ OnImageFinished
    \/ ClearHistory

SpecImages ==
    /\ Started([max_history : {MaxLimit}, save_original_image : BOOLEAN,
                 enable_rich_text : {TRUE}, enable_file_paths : {TRUE}])
    /\ [][NextImages]_vars

\* tier selection: snapshots that offer several representations, under every
\* setting of the two flags
TierSources ==
    { SnapImage(ImgAlpha, TextA), SnapHtml(HtmlLong, TextB),
      SnapUrls(<<LocalUrl(PathF)>>, TextB), SnapUrlsOnly(<<LocalUrl(PathF)>>) }

NextTiers ==
    \/ ExternalCopy(TierSources, MaxNotifications)
    \/ OnClipboardChange
    \/ RunLoadAll
    \/ OnHistoryLoaded
    \/ RunImageProcess
    \/ OnImageSaved
    \/ OnImageFinished

SpecTiers ==
    /\ Started([max_history : {MaxLimit}, save_original_image : {FALSE},
                 enable_rich_text : BOOLEAN, enable_file_paths : BOOLEAN])
    /\ [][NextTiers]_vars

\* image ingest when resizing and encoding may fail
IngestSources == {SnapImage(ImgOpaque, TextA), SnapImage(ImgBig, TextB)}

NextIngest ==
    \/ ExternalCopy(IngestSources, MaxNotifications)
    \/ OnClipboardChange
    \/ RunLoadAll
    \/ OnHistoryLoaded
    \/ RunImageProcessFaulty
    \/ OnImageSaved
    \/ OnImageFinished

SpecIngest ==
    /\ Started([max_history : {MaxLimit}, save_original_image : BOOLEAN,
                 enable_rich_text : {TRUE}, enable_file_paths : {TRUE}])
    /\ [][NextIngest]_vars

\* the background runner: every kind of runnable, failing or not
NextWorkers ==
    \/ ExternalCopy(MixedSources, MaxNotifications)
    \/ OnClipboardChange
    \/ RunWorker
    \/ OnSelfCheckComplete
    \/ OnHistoryLoaded
    \/ OnDetailLoaded
    \/ OnImageSaved
    \/ OnImageFinished
    \/ SelectItem
    \/ ClearHistory

SpecWorkers == Launched(PlainSettings({MaxLimit})) /\ [][NextWorkers]_vars

\* captures that fail: the INSERT of a text fails, an image worker raises
NextFailures ==
    \/ NextWorkers
    \/ OnClipboardChangeInsertFails

SpecFailures == Launched(PlainSettings({MaxLimit})) /\ [][NextFailures]_vars

\* copy-back: captures, selecting and clicking
NextCopyBack ==
    \/ ExternalCopy(MixedSources, MaxNotifications)
    \/ OnClipboardChange
    \/ RunLoadAll
    \/ OnHistoryLoaded
    \/ RunImageProcess
    \/ OnImageSaved
    \/ OnImageFinished
    \/ SelectItem
    \/ ClickItem
    \/ RunGetDetail
    \/ OnDetailLoaded

SpecCopyBack == Started(PlainSettings({MaxLimit})) /\ [][NextCopyBack]_vars

\* edit-back: captures of text, selecting, editing, the save timer
NextEdit ==
    \/ ExternalCopy(EditSources, MaxNotifications)
    \/ OnClipboardChange
    \/ RunLoadAll
    \/ OnHistoryLoaded
    \/ SelectItem
    \/ RunGetDetail
    \/ OnDetailLoaded
    \/ OnTextEdited
    \/ DoSavePending

SpecEdit == Started(PlainSettings({MaxLimit})) /\ [][NextEdit]_vars

\* the rows' fields: captures of text and images, selecting, editing, the
\* save timer, deleting
NextRecords ==
    \/ ExternalCopy(MixedSources, MaxNotifications)
    \/ OnClipboardChange
    \/ RunLoadAll
    \/ OnHistoryLoaded
    \/ RunImageProcess
    \/ OnImageSaved
    \/ OnImageFinished
    \/ SelectItem
    \/ RunGetDetail
    \/ OnDetailLoaded
    \/ OnTextEdited
    \/ DoSavePending
    \/ DeleteSelected

SpecRecords == Started(PlainSettings({MaxLimit})) /\ [][NextRecords]_vars

\* the image workers add_image_record_async may start: images of every shape
\* up to MaxSide under every small budget, and two screen-sized images under
\* the program's budget
ResizeTasks ==
    {ImageTask([pixels |-> <<"shape">>, w |-> w, h |-> h, alpha |-> FALSE], area, flag) :
        w \in 1..MaxSide, h \in 1..MaxSide, area \in 1..MaxArea, flag \in BOOLEAN}
    \cup {ImageTask(image, MAX_IMAGE_AREA_PIXELS, flag) :
            image \in {ImgSquare, ImgBig}, flag \in BOOLEAN}

\* the resize: one image worker started, its run and the slots that follow
NextResize ==
    \/ RunImageProcessRounded
    \/ OnImageSaved
    \/ OnImageFinished
    \/ RunLoadAll
    \/ OnHistoryLoaded

SpecResize ==
    /\ \E t \in ResizeTasks :
          Constructed(PlainSettings({MaxLimit}), {{}}, 1, Start(EmptyBag, t))
    /\ [][NextResize]_vars

\* a database file left by an earlier session: two plain text records
StoredTexts ==
    {TextRow(1, 1, Strip(TextA), "plain", MD5(Utf8(Strip(TextA)))),
     TextRow(2, 2, Strip(TextB), "plain", MD5(Utf8(Strip(TextB))))}

\* edit-back on stored records: the first refresh, selecting, editing, the
\* save timer
NextEditStored ==
    \/ RunLoadAll
    \/ OnHistoryLoaded
    \/ SelectItem
    \/ RunGetDetail
    \/ OnDetailLoaded
    \/ OnTextEdited
    \/ DoSavePending

\* the application started on that file, the self-check done and the first
\* refresh started; the save timer times out once started, workers run and
\* queued signals are delivered
SpecEditStored ==
    /\ Constructed(PlainSettings({MaxLimit}), {StoredTexts}, 3,
                   Start(EmptyBag, LoadAllTask(MaxLimit)))
    /\ [][NextEditStored]_vars
    /\ WF_vars(DoSavePending)
    /\ WF_vars(RunLoadAll)
    /\ WF_vars(OnHistoryLoaded)
    /\ WF_vars(RunGetDetail)
    /\ WF_vars(OnDetailLoaded)

\* the start-up self-check beside captures of text, on a file whose history
\* is at the limit
NextSelfCheck ==
    \/ ExternalCopy(EditSources, MaxNotifications)
    \/ OnClipboardChange
    \/ SelfCheckInsert
    \/ SelfCheckDelete
    \/ OnSelfCheckComplete
    \/ RunLoadAll
    \/ OnHistoryLoaded

SpecSelfCheck ==
    /\ Constructed(PlainSettings({MaxLimit}), {StoredTexts}, 2,
                   Start(EmptyBag, SelfCheckTask))
    /\ [][NextSelfCheck]_vars

\* the earlier build's capture path, under every setting of the flags
NextEarlier ==
    \/ ExternalCopy(ClassifierSources, MaxNotifications)
    \/ OnClipboardChangeEarlier
    \/ RunLoadAll
    \/ OnHistoryLoaded

SpecEarlier ==
    /\ EarlierLaunched([max_history : {MaxLimit}, save_original_image : {FALSE},
                        enable_rich_text : BOOLEAN, enable_file_paths : BOOLEAN])
    /\ [][NextEarlier]_vars

\* trim_to_limit on its own: any table, any limit from 0, called repeatedly
SpecTrim ==
    /\ Constructed(PlainSettings(0..MaxLimit), Tables, MaxRows, EmptyBag)
    /\ [][TrimToLimitCall]_vars

\* store operations on their own, from an empty table: any operation, any
\* failure
SpecStore ==
    /\ Constructed(PlainSettings({MaxLimit}), {{}}, 0, EmptyBag)
    /\ [][StoreCall]_vars

(***************************************************************************)
(* Properties.                                                             *)
(***************************************************************************)
\* no background task in flight and every worker signal delivered
Quiescent == threadpool = EmptyBag /\ events = <<>>

\* a step of a runnable on a pool thread: it takes the runnable, or the
\* statement the runnable was at, out of the pool; every other step is a
\* handler, slot or timer callback on the UI thread
WorkerStep ==
    \E t \in BagToSet(threadpool) : CopiesIn(t, threadpool') < CopiesIn(t, threadpool)

\* a step of the clipboard handler
Handled == notifications # <<>> /\ notifications' = Tail(notifications)

\* the step inserts no row and starts no worker
NothingCaptured == records' = records /\ seq' = seq /\ threadpool' = threadpool

TextTiers == {"text", "html", "file"}

\* C1: whenever the system is quiescent the table holds at most max_history rows
C1_BoundedHistory == Quiescent => GetCount(records) <= max_history

\* C1 witness: quiescent at the limit after more inserts than the limit, an
\* image among the rows kept
C1_Witness ==
    /\ Quiescent
    /\ seq > max_history + 1
    /\ GetCount(records) = max_history
    /\ \E r \in records : r.type = "image"

\* C2: when a notification finds the text candidate the notification handled
\* before it found, and since then no copy-back was made, no row was removed
\* and no setting changed, it adds nothing to the store
C2_RepeatAddsNothing ==
    [][(Handled /\ ~is_internal_copy /\ last_notification.intact
            /\ last_notification.tier \in TextTiers) => NothingCaptured]_vars

\* C2 witness: a text met twice in a row, the second time suppressed
C2_Witness ==
    /\ last_notification.repeat
    /\ last_notification.tier = "text"
    /\ last_notification.verdict = "duplicate_last"
    /\ \E r \in records : r.content_hash = last_clipboard_hash

\* C2 as stated: the second of two consecutive notifications carrying the same
\* text, with no copy-back in between, adds nothing, whatever happened to the
\* store in between
C2_SecondAddsNothing ==
    [][(Handled /\ ~is_internal_copy /\ last_notification.same
            /\ last_notification.tier \in TextTiers) => NothingCaptured]_vars

\* C3: a text candidate whose record is in the store is not captured again
\* although its hash differs from last_clipboard_hash
C3_StoredTextSuppressed ==
    [][(/\ Handled
        /\ ~is_internal_copy
        /\ LET c == Classify(clipboard, settings)
           IN  /\ c.tier \in TextTiers
               /\ MD5(Utf8(c.content)) # last_clipboard_hash
               /\ \E r \in records :
                    r.type = "text" /\ r.content = c.content /\ r.format = c.format)
       => NothingCaptured]_vars

\* C3 witness: A and B are stored, B was captured last, A came again and was
\* found in the store
C3_Witness ==
    /\ last_notification.tier = "text"
    /\ last_notification.verdict = "duplicate_db"
    /\ last_clipboard_hash = MD5(Utf8(Strip(TextB)))
    /\ {r.content : r \in records} = {Strip(TextA), Strip(TextB)}
    /\ clipboard = SnapText(TextA)

\* the representations of a snapshot that may be captured under the settings
Eligible(tier, snap, cfg) ==
    CASE tier = "image" -> snap.hasImage /\ ~IsNull(snap.image)
      [] tier = "file" -> cfg.enable_file_paths /\ LocalFiles(snap.urls) # <<>>
      [] tier = "html" -> cfg.enable_rich_text /\ snap.hasHtml
                          /\ Len(snap.html) > HTML_MIN_LENGTH
      [] tier = "text" -> HasText(snap) /\ Strip(ClipboardText(snap)) # <<>>

\* the first eligible tier in the order image, file paths, HTML, plain text
HighestPriority(snap, cfg) ==
    IF Eligible("image", snap, cfg) THEN "image"
    ELSE IF Eligible("file", snap, cfg) THEN "file"
    ELSE IF Eligible("html", snap, cfg) THEN "html"
    ELSE IF Eligible("text", snap, cfg) THEN "text"
    ELSE "none"

\* the tier a row was captured from
RowTier(r) ==
    IF r.type = "image" THEN "image"
    ELSE IF r.format = "file" THEN "file"
    ELSE IF r.format = "html" THEN "html"
    ELSE "text"

\* C4 as stated: one notification adds at most one row, and the row comes from
\* the first eligible representation in the order image, file paths, HTML,
\* plain text
C4_PriorityOrder ==
    [][Handled =>
        LET new == {r \in records' : r.id > seq}
        IN  /\ Cardinality(new) <= 1
            /\ \A r \in new : RowTier(r) = HighestPriority(clipboard, settings)]_vars

\* C5 as stated: the notification of a copy-back adds no record and leaves
\* last_clipboard_hash unchanged, and the flag is clear after it
C5_CopyBackConsumed ==
    [][(Handled /\ Head(notifications) = "internal")
        => (/\ NothingCaptured
            /\ last_clipboard_hash' = last_clipboard_hash
            /\ ~is_internal_copy')]_vars

\* C6: a run of edits ends in exactly one update_text_content call, made when
\* the timer fires, with the last edit's record and text; then nothing is
\* pending
C6_OneWritePerRun ==
    /\ save_timer => edit_log.updates = edit_log.runs - 1
    /\ ~save_timer =>
        /\ edit_log.updates = edit_log.runs
        /\ pending_save_id = 0
        /\ pending_save_text = NullText
        /\ edit_log.runs > 0 =>
            /\ edit_log.update_id = edit_log.id
            /\ edit_log.update_text = edit_log.text
            /\ \A r \in records : r.id = edit_log.id => r.content = edit_log.text

\* C6 witness: two edits in one run, one write, the row holds the last text
C6_Witness ==
    /\ ~save_timer
    /\ edit_log.edits >= 2
    /\ edit_log.updates = 1
    /\ \E r \in records : r.id = edit_log.id /\ r.content = edit_log.text

\* C7: while a write is pending, a step that is neither an edit nor the timer
\* keeps the pending id and text; when the timer fires, the row the last edit
\* was made on receives that edit's text and every other row stays as it is
C7_SwitchKeepsWrite ==
    [][/\ (save_timer /\ save_timer' /\ edit_log' = edit_log)
            => UNCHANGED <<pending_save_id, pending_save_text>>
       /\ (save_timer /\ ~save_timer')
            => /\ {r.id : r \in records'} = {r.id : r \in records}
               /\ \A r \in records :
                    IF r.id = edit_log.id
                    THEN [r EXCEPT !.content = edit_log.text] \in records'
                    ELSE r \in records']_vars

\* C7 witness: another record's detail was loaded while the write was pending
\* and is shown; the write has reached the record edited
C7_Witness ==
    /\ edit_log.switched
    /\ ~save_timer
    /\ current_record # NoRecord
    /\ current_record.id # edit_log.update_id
    /\ \E r \in records : r.id = edit_log.update_id /\ r.content = edit_log.update_text
    /\ \E r \in records : r.id = current_record.id /\ r.content = current_record.content

\* C8: trim_to_limit(n) on m > n rows leaves n rows, none of them older than a
\* row it deleted; on m <= n rows it deletes nothing
C8_TrimKeepsNewest ==
    trim_log.calls >= 1 =>
        IF Cardinality(trim_log.before) > max_history
        THEN /\ Cardinality(records) = max_history
             /\ records \subseteq trim_log.before
             /\ \A k \in records : \A d \in trim_log.before \ records :
                    k.timestamp >= d.timestamp
        ELSE records = trim_log.before

\* C8 witness: one call on a table above the limit, rows kept and rows deleted
C8_Witness ==
    /\ trim_log.calls = 1
    /\ max_history >= 1
    /\ Cardinality(trim_log.before) > max_history
    /\ Cardinality(records) = max_history

\* C9: the second of two calls with the same limit deletes nothing
C9_TrimIdempotent == trim_log.calls >= 2 => records = trim_log.before

\* C9 witness: two calls, the first of which deleted rows
C9_Witness == trim_log.calls = 2 /\ trim_log.removed > 0 /\ records # {}

\* C10 as stated: an image candidate whose pipeline hash is the content_hash
\* of a stored row is not captured again
C10_StoredImageSuppressed ==
    [][(/\ Handled
        /\ ~is_internal_copy
        /\ LET c == Classify(clipboard, settings)
           IN  /\ c.tier = "image"
               /\ \E r \in records :
                    /\ r.type = "image"
                    /\ r.content_hash =
                         ProcessImage(c.image, MAX_IMAGE_AREA_PIXELS,
                                      settings.save_original_image).content_hash)
       => NothingCaptured]_vars

\* the plain text of a snapshot is eligible and passes the guard
TextNew(snap) ==
    LET text == Strip(ClipboardText(snap))
    IN  /\ HasText(snap) /\ text # <<>>
        /\ ShouldCapture(MD5(Utf8(text)), last_clipboard_hash, records)

\* C11: when the first eligible tier is image, file list or HTML and the guard
\* rejects its content, the notification stores nothing and leaves
\* last_clipboard_hash, although the snapshot's plain text is new
C11_NoFallThrough ==
    [][(/\ Handled
        /\ ~is_internal_copy
        /\ HighestPriority(clipboard, settings) \in {"image", "file", "html"}
        /\ ~ShouldCapture(Classify(clipboard, settings).hash, last_clipboard_hash, records)
        /\ TextNew(clipboard))
       => (NothingCaptured /\ last_clipboard_hash' = last_clipboard_hash)]_vars

\* C11 witness: an image found in the store was rejected while the text that
\* came with it is in no record
C11_Witness ==
    /\ notifications = <<>>
    /\ last_notification.same
    /\ last_notification.tier = "image"
    /\ last_notification.verdict = "duplicate_db"
    /\ HighestPriority(clipboard, settings) = "image"
    /\ TextNew(clipboard)

\* C12 as stated: with enable_file_paths off, a notification for a snapshot
\* that offers local file URLs and nothing else stores nothing
C12_UrlsOnlyIgnored ==
    [][(/\ Handled
        /\ ~is_internal_copy
        /\ ~settings.enable_file_paths
        /\ clipboard = SnapUrlsOnly(<<LocalUrl(PathF)>>))
       => NothingCaptured]_vars

\* C13 as stated: a call in which the storage layer failed raises nothing,
\* returns 0 (the inserts, get_count), false (check_duplicate_hash) or nothing
\* (update, delete, clear, trim), and leaves the table as it was
C13_FailureLeavesStore ==
    store_log.failed =>
        /\ ~store_log.raised
        /\ store_log.result =
              CASE store_log.op \in {"add_text_record", "add_image_record", "get_count"}
                     -> IntResult(0)
                [] store_log.op = "check_duplicate_hash" -> BoolResult(FALSE)
                [] OTHER -> NoneResult
        /\ records = store_log.before

\* C14 as stated: every Image record holds image bytes and a thumbnail that a
\* successful encode produced
C14_NoPartialImage ==
    \A r \in records :
        r.type = "image" =>
            /\ r.content_blob.codec \in {"PNG", "JPEG"}
            /\ r.thumbnail.codec = "PNG"

\* C15 as stated: a run emits finished exactly once and result at most once,
\* no result when it raised, and a result only when it produced an output
C15_SignalsPerTask ==
    signal_log.kind # "none" =>
        /\ signal_log.finished = 1
        /\ signal_log.result <= 1
        /\ signal_log.raised => signal_log.result = 0
        /\ signal_log.result = 1 => signal_log.output

\* C16 as stated: with no task in flight, every callback delivered and no edit
\* waiting for the save timer, the list shown is the store's records ordered
\* by timestamp descending and limited to max_history
C16_ListEqualsStore ==
    (Quiescent /\ ~save_timer) => history_list \in LoadAll(records, max_history)

\* C17: a step changes no field of a row that stays in the table, except the
\* content of one text row, and that only by the update_text_content call of
\* the debounced save, for the row the call names
C17_FieldsImmutable ==
    [][\A r \in records : \A q \in records' :
          q.id = r.id =>
            /\ q = [r EXCEPT !.content = q.content]
            /\ q.content # r.content =>
                  /\ r.type = "text"
                  /\ edit_log'.updates = edit_log.updates + 1
                  /\ edit_log'.update_id = r.id
                  /\ q.content = edit_log'.update_text]_vars

\* an update has changed the content of a text row captured with another
\* text while an image row is in the table
C17_Witness ==
    /\ edit_log.updates > 0
    /\ \E r \in records :
          /\ r.id = edit_log.update_id
          /\ r.content = edit_log.update_text
          /\ r.content_hash # MD5(Utf8(r.content))
    /\ \E r \in records : r.type = "image"

\* C18 as stated, for the writes: the table changes only in a step of a
\* background worker, never in a handler running on the UI thread
C18_StoreOffUiThread == [][records' # records => WorkerStep]_vars

\* C19 as stated: when the slot handles the result of a get_detail whose
\* record is no longer in the table, the record does not become the current
\* record and nothing is shown
C19_RemovedDetailIgnored ==
    [][(/\ events # <<>>
        /\ Head(events).signal = "detail_loaded"
        /\ events' = Tail(events)
        /\ ~\E r \in records : r.id = Head(events).record.id)
       => (current_record' = current_record /\ editor_visible' = editor_visible)]_vars

\* the image worker t ends in this step
ImageRunOf(t) == t.kind = "image" /\ threadpool' = Finish(threadpool, t)

\* the worker is to resize its image
Resizes(t) == ~t.save_original /\ t.image.w * t.image.h > t.max_area

\* the width and height of row r are those of the image in its blob
StoredAsPersisted(r) == r.width = r.content_blob.w /\ r.height = r.content_blob.h

\* C20 as stated: a resized image is persisted with the aspect-preserving fit
\* into floor(w*s) x floor(h*s), s = sqrt(max_area / (w*h)), within max_area
\* pixels; any other with its own width and height; the row stores the width
\* and height of the persisted image
C20_FloorOfScaled ==
    [][\A t \in BagToSet(threadpool) : ImageRunOf(t) =>
         \A r \in records' \ records :
            /\ Resizes(t) =>
                  LET fit == Scaled(t.image,
                                    ScaledSide(t.image.w, t.image.h, t.max_area),
                                    ScaledSide(t.image.h, t.image.w, t.max_area))
                  IN  /\ r.width = fit.w /\ r.height = fit.h
                      /\ r.width * r.height <= t.max_area
            /\ ~Resizes(t) => r.width = t.image.w /\ r.height = t.image.h
            /\ StoredAsPersisted(r)]_vars

\* C20, amended: a resized image is persisted with the aspect-preserving fit
\* into a box whose sides are floor(w*s) and floor(h*s) or one pixel less,
\* never wider or higher than these floors and within max_area pixels; any
\* other with its own width and height; the row stores the width and height
\* of the persisted image
C20_WithinBudget ==
    [][\A t \in BagToSet(threadpool) : ImageRunOf(t) =>
         \A r \in records' \ records :
            /\ Resizes(t) =>
                  LET fw == ScaledSide(t.image.w, t.image.h, t.max_area)
                      fh == ScaledSide(t.image.h, t.image.w, t.max_area)
                  IN  /\ r.width <= fw /\ r.height <= fh
                      /\ r.width * r.height <= t.max_area
                      /\ \E tw \in {fw - 1, fw} : \E th \in {fh - 1, fh} :
                            LET fit == Scaled(t.image, tw, th)
                            IN  r.width = fit.w /\ r.height = fit.h
            /\ ~Resizes(t) => r.width = t.image.w /\ r.height = t.image.h
            /\ StoredAsPersisted(r)]_vars

\* the 2302 x 2302 image has been resized under the program's budget and
\* persisted one pixel short of 2048 x 2048
C20_Witness ==
    \E r \in records :
        /\ r.type = "image"
        /\ r.content_blob.pixels = <<"shot", "smooth", "jpeg">>
        /\ r.width = 2047 /\ r.height = 2047
        /\ r.width * r.height <= MAX_IMAGE_AREA_PIXELS

\* C21: when the save timer fires for a record that is no longer in the
\* table, the table is left as it was, the pending id and text are cleared
\* and the timer is idle
C21_AbsentTargetNoop ==
    [][(/\ save_timer /\ ~save_timer'
        /\ pending_save_id # 0
        /\ ~\E r \in records : r.id = pending_save_id)
       => (/\ records' = records
           /\ seq' = seq
           /\ pending_save_id' = 0
           /\ pending_save_text' = NullText)]_vars

\* the timer has fired for a record deleted while its write was pending,
\* another record is in the table, and the debouncer is idle
C21_Witness ==
    /\ edit_log.updates > 0
    /\ ~\E r \in records : r.id = edit_log.update_id
    /\ records # {}
    /\ ~save_timer /\ pending_save_id = 0

\* C22 as stated: a capture that fails leaves last_clipboard_hash as it was.
\* When add_text_record fails the handler's step does not change it; when an
\* image worker raises, it is not the hash of that worker's image
C22_HashOnlyOnSuccess ==
    [][/\ (Handled /\ last_notification'.verdict = "insert_failed")
            => last_clipboard_hash' = last_clipboard_hash
       /\ \A t \in BagToSet(threadpool) :
            (ImageRunOf(t) /\ signal_log' = Emitted("image", TRUE, FALSE))
            => last_clipboard_hash' # MD5(SaveImage(t.image, "PNG", -1))]_vars

\* the first n rows in the order (timestamp descending, id descending)
NewestThenLargestId(rows, n) ==
    CHOOSE K \in SUBSET rows :
        /\ Cardinality(K) = Min(n, Cardinality(rows))
        /\ \A k \in K : \A d \in rows \ K :
              \/ k.timestamp > d.timestamp
              \/ k.timestamp = d.timestamp /\ k.id > d.id

\* C23 as stated: trim_to_limit(n) leaves exactly the first n rows in the
\* order (timestamp descending, id descending)
C23_TiesByLargerId ==
    trim_log.calls >= 1 => records = NewestThenLargestId(trim_log.before, max_history)

\* C24 as stated: no two rows of the table have the same content_hash, NULL
\* and the hash of no bytes set aside
C24_UniqueHashes ==
    \A r \in records : \A q \in records :
        (r.id # q.id /\ r.content_hash \notin {NullHash, EmptyHash})
        => r.content_hash # q.content_hash

\* C25 as stated: the content_hash of every text row is the hash of the
\* row's content
C25_HashOfCurrentText ==
    \A r \in records : r.type = "text" => r.content_hash = MD5(Utf8(r.content))

\* a row of the table holds the candidate's content
HoldsContent(rows, c) ==
    IF c.tier = "image"
    THEN \E r \in rows :
            /\ r.type = "image"
            /\ r.content_hash = ProcessImage(c.image, MAX_IMAGE_AREA_PIXELS,
                                             settings.save_original_image).content_hash
    ELSE \E r \in rows : r.type = "text" /\ r.content = c.content /\ r.format = c.format

\* C26 as stated: when the guard rejects a candidate while no image worker is
\* still to insert, a row of the table holds the candidate's content
C26_SuppressedIsStored ==
    [][(/\ Handled
        /\ ~is_internal_copy
        /\ \A t \in BagToSet(threadpool) : t.kind # "image"
        /\ LET c == Classify(clipboard, settings)
           IN  c.tier # "none" /\ ~ShouldCapture(c.hash, last_clipboard_hash, records))
       => HoldsContent(records, Classify(clipboard, settings))]_vars

\* C27 as stated: the flag is set only while a notification of the
\* application's own clipboard write is undelivered, and the notification of
\* another application's write is never handled with the flag set
C27_FlagOnlyForOwnWrite ==
    [][/\ is_internal_copy' =>
            \E i \in 1..Len(notifications') : notifications'[i] = "internal"
       /\ (Handled /\ Head(notifications) = "external") => ~is_internal_copy]_vars

\* C28 as stated: the copy-back a click on an item makes writes to the
\* clipboard what the table holds for the clicked item's record
C28_CopiesClickedRecord ==
    [][(/\ notifications' = Append(notifications, "internal")
        /\ \E r \in records : r.id = current_item')
       => clipboard' = CopiedSnapshot(GetDetail(records, current_item'))]_vars

\* the texts on_text_edited may leave pending
EditedTexts == TypedTexts \cup {ToHtml(t) : t \in TypedTexts}

\* C29 as stated: a text typed into a record and waiting for the save timer
\* is eventually the content of that record, unless the record is gone or a
\* newer text typed into the same record is waiting
C29_LastEditPersisted ==
    \A id \in 1..2 : \A t \in EditedTexts :
        (save_timer /\ pending_save_id = id /\ pending_save_text = t)
        ~> (\/ \E r \in records : r.id = id /\ r.content = t
            \/ ~\E r \in records : r.id = id
            \/ pending_save_id = id /\ pending_save_text # t)

\* the row SelfCheckWorker inserts: no other INSERT leaves content_hash NULL
IsProbe(r) == r.content = ProbeText /\ r.content_hash = NullHash

UserRows(rows) == {r \in rows : ~IsProbe(r)}

\* C30 as stated: once the self-check has finished no probe row is in the
\* table, and a capture leaves the user records that the same capture and
\* its trim_to_limit leave on the table without the probe row
C30_ProbeLeavesNoTrace ==
    [][/\ (\A t \in BagToSet(threadpool') : t.kind # "self_check")
            => UserRows(records') = records'
       /\ (Handled /\ records' # records)
            => UserRows(records') \in
                  TrimToLimit(UserRows(records) \cup {r \in records' : r.id > seq},
                              max_history)]_vars

====
